---- MODULE Spec2Model ----
(***************************************************************************)
(* Model of daily_krx_volume_spike.py: the weekday rule that picks the two *)
(* sessions to compare, the per-market snapshot fetchers, the spike        *)
(* detection / ranking pipeline of build_report, the rendering of the      *)
(* report text, the chunked delivery of tg_send and the error policy of    *)
(* the main block.                                                         *)
(*                                                                         *)
(* Dates are proleptic Gregorian ordinals (date.toordinal()), so that      *)
(* date.weekday() is (ordinal + 6) % 7 with Monday = 0.                    *)
(* A text is the sequence of its lines; only the length of a line (in code *)
(* points) and what the line is are kept.  Lines are joined by "\n", so a  *)
(* text of n lines of lengths l1..ln has l1 + .. + ln + (n - 1) characters.*)
(* Ratios are kept in hundredths: 5.0 is 500.                              *)
(***************************************************************************)
EXTENDS Integers, Sequences, FiniteSets, TLC

VARIABLES
    src,        \* what the outside world holds for this run (clock, market data, names)
    pc,         \* position of the main block
    days,       \* (d1_date, d0_date) of build_report, <<>> for (None, None)
    vol1,       \* build_report: vol1, the concatenated d1 volume frames
    vol0,       \* build_report: vol0
    mcap,       \* build_report: mcap
    passed,     \* build_report: result after the ratio filter (line 180)
    ranked,     \* build_report: result after the cap join and sort_values (line 185)
    result,     \* build_report: result after head(30) (line 186)
    msg,        \* the text build_report returned
    sending,    \* which tg_send call is running: "report" or "error"
    text,       \* tg_send's argument
    i,          \* tg_send's chunk offset
    attempts,   \* every _post call made so far, in order
    delivered,  \* every _post call that the endpoint accepted, in order
    raised,     \* the exception the main block caught: "none", "build" or "delivery"
    errLen,     \* len(str(e)) of that exception
    stderr,     \* TRUE once "ERROR: ..." was written to standard error
    exitCode    \* the process exit code, meaningful when pc = "exit"

vars == <<src, pc, days, vol1, vol0, mcap, passed, ranked, result, msg,
          sending, text, i, attempts, delivered, raised, errLen, stderr, exitCode>>

(***************************************************************************)
(* Program constants                                                       *)
(***************************************************************************)
TG_MAX == 4096

\* merged["배수"] >= 5, in hundredths
THRESHOLD == 500

\* result.head(30)
TOP_N == 30

Markets == <<"KOSPI", "KOSDAQ">>

\* lengths of the fixed strings, in code points
LEN_TITLE == 32
LEN_DATES == 29
LEN_NOTE == 22
LEN_NOMATCH == 6
LEN_ERR_PREFIX == 11
LEN_POST_FAILED == 29
LEN_CODE_TAGS == 13

\* num_field_width + 1, gap_between, disp_width("종목명"), disp_width("전일거래량")
LEAD == 4
GAP == 2
LABEL_NAME_CHARS == 3
LABEL_NAME_W == 6
LABEL_VOL_CHARS == 5
LABEL_VOL_W == 10

(***************************************************************************)
(* Small helpers                                                           *)
(***************************************************************************)
Max(a, b) == IF a >= b THEN a ELSE b
Min(a, b) == IF a <= b THEN a ELSE b

RECURSIVE SetToSeq(_)
\* the elements of a finite set of integers, ascending
SetToSeq(S) ==
    IF S = {} THEN <<>>
    ELSE LET m == CHOOSE x \in S : \A y \in S : x <= y
         IN <<m>> \o SetToSeq(S \ {m})

\* a raw cell of the market-data source
Num(n) == [k |-> "num", v |-> n]
NaN == [k |-> "nan", v |-> 0]
Absent == [k |-> "absent", v |-> 0]

\* the market a ticker is listed on (tickers are market-unique)
MarketOf(t) == IF t % 2 = 1 THEN "KOSPI" ELSE "KOSDAQ"

(***************************************************************************)
(* Date picking                                                            *)
(***************************************************************************)
weekday(d) == (d + 6) % 7

RECURSIVE SkipWeekend(_)
SkipWeekend(d) == IF weekday(d) >= 5 THEN SkipWeekend(d - 1) ELSE d

_prev_weekday(d) == SkipWeekend(d - 1)

\* variant: the Monday and Tuesday offsets forget the weekend
pick_compare_days_mon_bug(now) ==
    LET wd == weekday(now)
    IN IF wd >= 5 THEN <<>>
       ELSE IF wd = 0 THEN <<now - 2, now - 3>>
       ELSE IF wd = 1 THEN <<now - 1, now - 2>>
       ELSE <<_prev_weekday(now), _prev_weekday(_prev_weekday(now))>>

pick_compare_days(now) ==
    LET wd == weekday(now)
    IN IF wd >= 5 THEN <<>>
       ELSE IF wd = 0 THEN <<now - 3, now - 4>>
       ELSE IF wd = 1 THEN <<now - 1, now - 4>>
       ELSE <<_prev_weekday(now), _prev_weekday(_prev_weekday(now))>>

(***************************************************************************)
(* Data pulls                                                              *)
(***************************************************************************)
\* The frame the data source returns for one date and market: kind "none"
\* is None, "std" has the canonical column, "alt" has it under another name
\* holding the marker substring, "nocol" has no such column.  Rows are in
\* ticker order.
SourceFrame(cells, kind, market) ==
    LET ts == {t \in DOMAIN cells : MarketOf(t) = market /\ cells[t].k # "absent"}
        order == SetToSeq(ts)
    IN [kind |-> kind,
        rows |-> IF kind = "none" THEN <<>>
                 ELSE [n \in 1..Len(order) |-> [ticker |-> order[n], cell |-> cells[order[n]]]]]

IsNumRow(r) == r.cell.k = "num"

get_volume_by_market(frame, market) ==
    IF frame.kind = "none" \/ Len(frame.rows) = 0 THEN <<>>
    ELSE IF frame.kind = "nocol" THEN <<>>
    ELSE LET kept == SelectSeq(frame.rows, IsNumRow)
         IN [n \in 1..Len(kept) |->
                [ticker |-> kept[n].ticker, vol |-> kept[n].cell.v, market |-> market]]

get_mcap_by_market(frame, market) ==
    IF frame.kind = "none" \/ Len(frame.rows) = 0 THEN <<>>
    ELSE IF frame.kind = "nocol" THEN <<>>
    ELSE LET kept == SelectSeq(frame.rows, IsNumRow)
         IN [n \in 1..Len(kept) |-> [ticker |-> kept[n].ticker, cap |-> kept[n].cell.v]]

(***************************************************************************)
(* build_report: merge, ratio, filter                                      *)
(***************************************************************************)
\* (a / b).round(2) in hundredths, for a >= 0 and b > 0: round half to even,
\* as numpy does.  The only tie that decides the filter is 4.995, which the
\* float computation also takes to 5.0 (499.5 is exact and rounds to 500).
Round2(a, b) ==
    LET q == (100 * a) \div b
        r == (100 * a) % b
    IN IF 2 * r < b THEN q
       ELSE IF 2 * r > b THEN q + 1
       ELSE IF q % 2 = 0 THEN q ELSE q + 1

RECURSIVE InnerMerge(_, _)
\* pd.merge(vol1, vol0, on=["티커"], how="inner"): the order of the left rows,
\* one row per matching right row
InnerMerge(left, right) ==
    IF Len(left) = 0 THEN <<>>
    ELSE LET l == Head(left)
             hits == SelectSeq(right, LAMBDA r : r.ticker = l.ticker)
         IN [n \in 1..Len(hits) |->
                [ticker |-> l.ticker, v1 |-> l.vol, v0 |-> hits[n].vol]]
            \o InnerMerge(Tail(left), right)

WithRatio(rows) ==
    [n \in 1..Len(rows) |->
        [ticker |-> rows[n].ticker, v1 |-> rows[n].v1, v0 |-> rows[n].v0,
         ratio |-> Round2(rows[n].v1, rows[n].v0)]]

\* merged[merged["배수"] >= 5]
KeepSpike(r) == r.ratio >= THRESHOLD

\* variant: no prior > 0 guard, a division by zero giving an infinite ratio
DetectNoZeroGuard(v1rows, v0rows) ==
    LET merged == InnerMerge(v1rows, v0rows)
        safe == [n \in 1..Len(merged) |->
                    [ticker |-> merged[n].ticker, v1 |-> merged[n].v1, v0 |-> merged[n].v0,
                     ratio |-> IF merged[n].v0 > 0
                               THEN Round2(merged[n].v1, merged[n].v0) ELSE THRESHOLD]]
    IN SelectSeq(safe, KeepSpike)

\* lines 174-180
Detect(v1rows, v0rows) ==
    LET merged == InnerMerge(v1rows, v0rows)
        pos == SelectSeq(merged, LAMBDA r : r.v0 > 0)
    IN SelectSeq(WithRatio(pos), KeepSpike)

(***************************************************************************)
(* build_report: cap join, sort, head                                      *)
(***************************************************************************)
RECURSIVE LeftJoinCap(_, _)
\* pd.merge(result, mcap, on="티커", how="left") followed by fillna(0)
LeftJoinCap(rows, caps) ==
    IF Len(rows) = 0 THEN <<>>
    ELSE LET l == Head(rows)
             hits == SelectSeq(caps, LAMBDA c : c.ticker = l.ticker)
             one(c) == [ticker |-> l.ticker, v1 |-> l.v1, v0 |-> l.v0,
                        ratio |-> l.ratio, cap |-> c]
         IN (IF Len(hits) = 0 THEN <<one(0)>>
             ELSE [n \in 1..Len(hits) |-> one(hits[n].cap)])
            \o LeftJoinCap(Tail(rows), caps)

\* variant: sorted by recent volume alone
BeforeByVolumeOnly(a, b) == a.v1 > b.v1

\* a sorts strictly before b under by=["시가총액", "거래량_전일"], ascending=[False, False]
Before(a, b) == a.cap > b.cap \/ (a.cap = b.cap /\ a.v1 > b.v1)

RECURSIVE InsertRow(_, _)
\* r goes after every row that does not sort strictly after it (stable)
InsertRow(sorted, r) ==
    IF Len(sorted) = 0 THEN <<r>>
    ELSE IF Before(r, Head(sorted)) THEN <<r>> \o sorted
    ELSE <<Head(sorted)>> \o InsertRow(Tail(sorted), r)

RECURSIVE SortRows(_, _)
\* sort_values on two keys is a stable lexsort
SortRows(rows, acc) ==
    IF Len(rows) = 0 THEN acc
    ELSE SortRows(Tail(rows), InsertRow(acc, Head(rows)))

\* variant: one row too many
head_off_by_one(rows, n) == SubSeq(rows, 1, Min(n + 1, Len(rows)))

\* DataFrame.head(n)
head(rows, n) == SubSeq(rows, 1, Min(n, Len(rows)))

(***************************************************************************)
(* build_report: names and message                                         *)
(***************************************************************************)
\* A display name: how many narrow characters, how many East-Asian wide (W/F)
\* characters and how many "&" it holds.  html.escape turns "&" into "&amp;".
Name(narrow, wide, amp) == [narrow |-> narrow, wide |-> wide, amp |-> amp]
EmptyName == Name(0, 0, 0)

EscapedChars(nm) == nm.narrow + nm.wide + 5 * nm.amp

\* disp_width: W/F characters count 2
disp_width(nm) == nm.narrow + nm.amp + 2 * nm.wide

\* name_map[t]: the looked-up name, "" when the look-up raises
name_map(names, fails, t) == IF t \in fails THEN EmptyName ELSE names[t]

RECURSIVE Digits(_)
Digits(n) == IF n < 10 THEN 1 ELSE 1 + Digits(n \div 10)

\* len(f"{int(v):,}")
VolStrLen(v) == Digits(v) + ((Digits(v) - 1) \div 3)

RECURSIVE MaxWidth(_)
MaxWidth(nms) == IF Len(nms) = 0 THEN 0 ELSE Max(disp_width(Head(nms)), MaxWidth(Tail(nms)))

Line(kind, len, num, ticker) == [kind |-> kind, len |-> len, num |-> num, ticker |-> ticker]

\* header, split at its "\n": the title, the dates, the note
Header == <<Line("title", LEN_TITLE, 0, 0), Line("dates", LEN_DATES, 0, 0),
            Line("note", LEN_NOTE, 0, 0)>>

\* variant: the header alone
RenderEmptyNoLine == Header

\* lines 203-204: header + "\n해당 없음."
RenderEmpty == Header \o <<Line("blank", 0, 0, 0), Line("nomatch", LEN_NOMATCH, 0, 0)>>

\* lines 197-245
Render(rows, names, fails) ==
    IF Len(rows) = 0 THEN RenderEmpty
    ELSE
    LET nms == [n \in 1..Len(rows) |-> name_map(names, fails, rows[n].ticker)]
        name_width == Max(2, MaxWidth(nms))
        cur_w == LEAD + LABEL_NAME_W
        vol_anchor == LEAD + name_width + GAP + LABEL_VOL_W
        spaces_needed == Max(0, vol_anchor - cur_w - LABEL_VOL_W)
        label == LEAD + LABEL_NAME_CHARS + spaces_needed + LABEL_VOL_CHARS
        row(n) ==
            LET left == Max(Digits(n) + 1, LEAD - 1) + 1
                pad == Max(0, name_width - disp_width(nms[n]))
                base_w == left + disp_width(nms[n]) + pad + GAP
                vv == VolStrLen(rows[n].v1)
                rem == Max(0, vol_anchor - base_w - vv)
            IN Line("row",
                    LEN_CODE_TAGS + left + EscapedChars(nms[n]) + pad + GAP + rem + vv,
                    n, rows[n].ticker)
    IN Header \o <<Line("blank", 0, 0, 0), Line("label", LEN_CODE_TAGS + label, 0, 0)>>
       \o [n \in 1..Len(rows) |-> row(n)]

(***************************************************************************)
(* tg_send                                                                 *)
(***************************************************************************)
RECURSIVE SumLen(_)
SumLen(t) == IF Len(t) = 0 THEN 0 ELSE Head(t).len + SumLen(Tail(t))

\* len(text): the lines and the "\n" between them
TextLen(t) == IF Len(t) = 0 THEN 0 ELSE SumLen(t) + Len(t) - 1

\* offset of the first character of line n of t
LineStart(t, n) == TextLen(SubSeq(t, 1, n - 1)) + (IF n > 1 THEN 1 ELSE 0)

\* text[i:i+TG_MAX], or the whole text when it fits: the half-open range it covers
Chunk(t, at) ==
    IF TextLen(t) <= TG_MAX THEN [lo |-> 0, hi |-> TextLen(t)]
    ELSE [lo |-> at, hi |-> Min(at + TG_MAX, TextLen(t))]

\* variant: the chunks overlap by one character
NextOffsetOverlap(at) == at + TG_MAX - 1

\* i += TG_MAX
NextOffset(at) == at + TG_MAX

\* whether tg_send posts again after the chunk at offset at was accepted
MoreChunks(t, at) == TextLen(t) > TG_MAX /\ NextOffset(at) < TextLen(t)

(***************************************************************************)
(* The runs that are explored                                              *)
(***************************************************************************)
\* reference dates: DaySpan + 1 consecutive days from Monday 2024-01-01
DaySpan == 13
RefDays == {738886 + n : n \in 0..DaySpan}
Wednesday == 738886 + 2

\* the largest number of listed tickers explored
BigTickers == 32

Kinds == {"none", "std", "alt", "nocol"}
StdVolKinds == [d \in {"d1", "d0"} |-> [m \in {"KOSPI", "KOSDAQ"} |-> "std"]]
StdCapKinds == [m \in {"KOSPI", "KOSDAQ"} |-> "std"]

\* a Korean name of four wide characters, a Latin name with one "&", no name
SmallNames == <<Name(0, 4, 0), Name(3, 0, 1), EmptyName>>
LongName == Name(0, 130, 0)

Scenario(now, v1, v0, cap, volKinds, capKinds, names, fails, srcFails, srcErrLen) ==
    [now |-> now, vol1 |-> v1, vol0 |-> v0, cap |-> cap,
     volKinds |-> volKinds, capKinds |-> capKinds,
     names |-> names, nameFails |-> fails,
     srcFails |-> srcFails, srcErrLen |-> srcErrLen]

BaseVol1 == <<Num(2000), Num(1999), Num(400)>>
BaseVol0 == <<Num(400), Num(400), Num(400)>>
BaseCap == <<Num(7), Absent, Num(9)>>

\* every reference date, one market state
DateRuns ==
    {Scenario(d, BaseVol1, BaseVol0, BaseCap, StdVolKinds, StdCapKinds,
              SmallNames, {3}, FALSE, 0) : d \in RefDays}

\* two tickers, every combination of raw volumes around the threshold
FilterV1 == {Absent, NaN, Num(0), Num(999), Num(1997), Num(1999), Num(2000)}
FilterV0 == {Absent, NaN, Num(0), Num(200), Num(400)}
FilterRuns ==
    {Scenario(Wednesday, v1, v0, <<Num(7), Num(7)>>, StdVolKinds, StdCapKinds,
              SmallNames, {}, FALSE, 0) :
        v1 \in [1..2 -> FilterV1], v0 \in [1..2 -> FilterV0]}

\* three tickers that pass the filter, every combination of raw caps
RankV1 == {Num(500), Num(700)}
RankCap == {Absent, NaN, Num(0), Num(7)}
RankRuns ==
    {Scenario(Wednesday, v1, <<Num(100), Num(100), Num(100)>>, cap, StdVolKinds,
              StdCapKinds, SmallNames, {3}, FALSE, 0) :
        v1 \in [1..3 -> RankV1], cap \in [1..3 -> RankCap]}

\* every shape of frame the data source can return
ShapeRuns ==
    {Scenario(Wednesday, BaseVol1, BaseVol0, BaseCap, vk, StdCapKinds,
              SmallNames, {3}, FALSE, 0) :
        vk \in [{"d1", "d0"} -> [{"KOSPI", "KOSDAQ"} -> Kinds]]}
    \cup
    {Scenario(Wednesday, BaseVol1, BaseVol0, BaseCap, StdVolKinds, ck,
              SmallNames, {3}, FALSE, 0) :
        ck \in [{"KOSPI", "KOSDAQ"} -> Kinds]}

\* around TOP_N spiking tickers, with short or very long names
BigRuns ==
    {Scenario(Wednesday,
              [t \in 1..n |-> Num(500 + 100 * (t % 3))],
              [t \in 1..n |-> Num(100)],
              [t \in 1..n |-> IF t % 4 = 0 THEN Absent ELSE Num((t * k) % 5)],
              StdVolKinds, StdCapKinds,
              [t \in 1..n |-> nm], {}, FALSE, 0) :
        n \in (TOP_N - 1)..BigTickers, k \in {1, 3}, nm \in {Name(0, 4, 0), LongName}}

\* the data source raises, with messages that make the error text 41, 4096,
\* 4097, 5000, 8192 and 8193 characters long
SrcErrLens == {30, 4085, 4086, 4989, 8181, 8182}
FailRuns ==
    {Scenario(Wednesday, BaseVol1, BaseVol0, BaseCap, StdVolKinds, StdCapKinds,
              SmallNames, {3}, TRUE, n) : n \in SrcErrLens}

Scenarios == DateRuns \cup FilterRuns \cup RankRuns \cup ShapeRuns \cup BigRuns \cup FailRuns

\* len(desc) of a failed _post
DescLens == {20, 5000}

(***************************************************************************)
(* State machine                                                           *)
(***************************************************************************)
Init ==
    /\ src \in Scenarios
    /\ pc = "start"
    /\ days = <<>>
    /\ vol1 = <<>>
    /\ vol0 = <<>>
    /\ mcap = <<>>
    /\ passed = <<>>
    /\ ranked = <<>>
    /\ result = <<>>
    /\ msg = <<>>
    /\ sending = "none"
    /\ text = <<>>
    /\ i = 0
    /\ attempts = <<>>
    /\ delivered = <<>>
    /\ raised = "none"
    /\ errLen = 0
    /\ stderr = FALSE
    /\ exitCode = 0

\* build_report lines 153-160; on (None, None) it returns None and the main
\* block sends nothing
PickDays ==
    /\ pc = "start"
    /\ days' = pick_compare_days(src.now)
    /\ IF days' = <<>>
       THEN pc' = "exit" /\ exitCode' = 0
       ELSE pc' = "fetch" /\ UNCHANGED exitCode
    /\ UNCHANGED <<src, vol1, vol0, mcap, passed, ranked, result, msg, sending, text, i,
                   attempts, delivered, raised, errLen, stderr>>

\* build_report lines 163-171
Fetch ==
    /\ pc = "fetch"
    /\ IF src.srcFails
       THEN /\ raised' = "build"
            /\ errLen' = src.srcErrLen
            /\ pc' = "except"
            /\ UNCHANGED <<vol1, vol0, mcap>>
       ELSE /\ vol1' = get_volume_by_market(SourceFrame(src.vol1, src.volKinds["d1"][Markets[1]], Markets[1]), Markets[1])
                       \o get_volume_by_market(SourceFrame(src.vol1, src.volKinds["d1"][Markets[2]], Markets[2]), Markets[2])
            /\ vol0' = get_volume_by_market(SourceFrame(src.vol0, src.volKinds["d0"][Markets[1]], Markets[1]), Markets[1])
                       \o get_volume_by_market(SourceFrame(src.vol0, src.volKinds["d0"][Markets[2]], Markets[2]), Markets[2])
            /\ mcap' = get_mcap_by_market(SourceFrame(src.cap, src.capKinds[Markets[1]], Markets[1]), Markets[1])
                       \o get_mcap_by_market(SourceFrame(src.cap, src.capKinds[Markets[2]], Markets[2]), Markets[2])
            /\ pc' = "detect"
            /\ UNCHANGED <<raised, errLen>>
    /\ UNCHANGED <<src, days, passed, ranked, result, msg, sending, text, i,
                   attempts, delivered, stderr, exitCode>>

\* build_report lines 174-180
DetectStep ==
    /\ pc = "detect"
    /\ passed' = Detect(vol1, vol0)
    /\ pc' = "rank"
    /\ UNCHANGED <<src, days, vol1, vol0, mcap, ranked, result, msg, sending, text, i,
                   attempts, delivered, raised, errLen, stderr, exitCode>>

\* build_report lines 183-186
RankStep ==
    /\ pc = "rank"
    /\ ranked' = SortRows(LeftJoinCap(passed, mcap), <<>>)
    /\ result' = head(ranked', TOP_N)
    /\ pc' = "render"
    /\ UNCHANGED <<src, days, vol1, vol0, mcap, passed, msg, sending, text, i,
                   attempts, delivered, raised, errLen, stderr, exitCode>>

\* build_report lines 189-245, then tg_send(msg) is entered
RenderStep ==
    /\ pc = "render"
    /\ msg' = Render(result, src.names, src.nameFails)
    /\ sending' = "report"
    /\ text' = msg'
    /\ i' = 0
    /\ pc' = "post_html"
    /\ UNCHANGED <<src, days, vol1, vol0, mcap, passed, ranked, result,
                   attempts, delivered, raised, errLen, stderr, exitCode>>

Attempt(html, ok) ==
    [what |-> sending, lo |-> Chunk(text, i).lo, hi |-> Chunk(text, i).hi,
     html |-> html, ok |-> ok]

\* variant: the handler ends without sys.exit(1)
AcceptedExitZero ==
    IF MoreChunks(text, i)
    THEN /\ i' = NextOffset(i)
         /\ pc' = "post_html"
         /\ UNCHANGED <<stderr, exitCode>>
    ELSE /\ i' = i
         /\ pc' = "exit"
         /\ exitCode' = 0
         /\ stderr' = (sending = "error")

\* what follows an accepted _post: the next chunk, or tg_send returns, to the
\* end of the main block (exit 0) or to the handler's stderr.write and sys.exit(1)
Accepted ==
    IF MoreChunks(text, i)
    THEN /\ i' = NextOffset(i)
         /\ pc' = "post_html"
         /\ UNCHANGED <<stderr, exitCode>>
    ELSE /\ i' = i
         /\ IF sending = "report"
            THEN pc' = "exit" /\ exitCode' = 0 /\ UNCHANGED stderr
            ELSE pc' = "exit" /\ exitCode' = 1 /\ stderr' = TRUE

\* _post(chunk, parse_html=True)
PostHtml ==
    /\ pc = "post_html"
    /\ \E ok \in BOOLEAN :
        /\ attempts' = Append(attempts, Attempt(TRUE, ok))
        /\ IF ok
           THEN /\ delivered' = Append(delivered, Attempt(TRUE, ok))
                /\ Accepted
           ELSE /\ pc' = "post_plain"
                /\ UNCHANGED <<delivered, i, stderr, exitCode>>
    /\ UNCHANGED <<src, days, vol1, vol0, mcap, passed, ranked, result, msg, sending, text,
                   raised, errLen>>

\* except RuntimeError: _post(chunk, parse_html=False); a second failure leaves
\* tg_send: to the main block's handler, or swallowed when the handler called
PostPlain ==
    /\ pc = "post_plain"
    /\ \/ /\ attempts' = Append(attempts, Attempt(FALSE, TRUE))
          /\ delivered' = Append(delivered, Attempt(FALSE, TRUE))
          /\ Accepted
          /\ UNCHANGED <<raised, errLen>>
       \/ /\ attempts' = Append(attempts, Attempt(FALSE, FALSE))
          /\ IF sending = "report"
             THEN /\ raised' = "delivery"
                  /\ \E n \in DescLens : errLen' = LEN_POST_FAILED + n
                  /\ pc' = "except"
                  /\ UNCHANGED <<stderr, exitCode>>
             ELSE /\ pc' = "exit"
                  /\ exitCode' = 1
                  /\ stderr' = TRUE
                  /\ UNCHANGED <<raised, errLen>>
          /\ UNCHANGED <<delivered, i>>
    /\ UNCHANGED <<src, days, vol1, vol0, mcap, passed, ranked, result, msg, sending, text>>

\* except Exception as e: tg_send(f"... {e}") is entered
Except ==
    /\ pc = "except"
    /\ sending' = "error"
    /\ text' = <<Line("error", LEN_ERR_PREFIX + errLen, 0, 0)>>
    /\ i' = 0
    /\ pc' = "post_html"
    /\ UNCHANGED <<src, days, vol1, vol0, mcap, passed, ranked, result, msg,
                   attempts, delivered, raised, errLen, stderr, exitCode>>

Next == PickDays \/ Fetch \/ DetectStep \/ RankStep \/ RenderStep
        \/ PostHtml \/ PostPlain \/ Except

Spec == Init /\ [][Next]_vars

(***************************************************************************)
(* Vocabulary of the properties                                            *)
(***************************************************************************)
Range(s) == {s[n] : n \in 1..Len(s)}
TickersOf(rows) == {r.ticker : r \in Range(rows)}
Ceil(a, b) == (a + b - 1) \div b

\* build_report got past the ratio filter / the sort / the rendering
Detected == pc \in {"rank", "render", "post_html", "post_plain", "except", "exit"}
               /\ days # <<>> /\ raised # "build"
Ranked == Detected /\ pc # "rank"
Rendered == Ranked /\ pc # "render"

RowLines(t) == SelectSeq(t, LAMBDA l : l.kind = "row")
MarkerLines(t) == SelectSeq(t, LAMBDA l : l.kind = "omitted")

AttemptsOf(w) == SelectSeq(attempts, LAMBDA a : a.what = w)
DeliveredOf(w) == SelectSeq(delivered, LAMBDA a : a.what = w)

\* the argument of the tg_send call w
ErrorText == <<Line("error", LEN_ERR_PREFIX + errLen, 0, 0)>>
TextOf(w) == IF w = "report" THEN msg ELSE ErrorText

\* the tg_send call w was entered / has returned normally
Entered(w) == IF w = "report" THEN Rendered
              ELSE sending = "error"
Returned(w) == IF w = "report" THEN Rendered /\ pc = "exit" /\ raised = "none"
               ELSE sending = "error" /\ pc = "exit" /\ DeliveredOf(w) # <<>>
                    /\ delivered[Len(delivered)] = attempts[Len(attempts)]

\* offset b of text t falls on a row boundary: a line starts there, or the
\* "\n" that ends a line is there
SafeBoundary(t, b) ==
    \E n \in 1..Len(t) : b = LineStart(t, n) \/ (n > 1 /\ b = LineStart(t, n) - 1)

(***************************************************************************)
(* C1: after the ratio filter of build_report, ticker T has a row iff T    *)
(* has an entry in the d1 snapshot, an entry in the d0 snapshot with       *)
(* volume > 0, and round(recent / prior, 2) >= 5; the row carries exactly  *)
(* that ratio; a ticker with prior volume 0, or missing from either        *)
(* snapshot, has no row.                                                   *)
(***************************************************************************)
C1_SpikeRecordIff ==
    Detected =>
        /\ \A t \in DOMAIN src.vol1 :
             (t \in TickersOf(passed)) <=>
                \E a \in Range(vol1), b \in Range(vol0) :
                    /\ a.ticker = t /\ b.ticker = t
                    /\ b.vol > 0
                    /\ 2 * (100 * a.vol) >= 2 * 500 * b.vol - b.vol
        /\ \A r \in Range(passed) :
             /\ \E a \in Range(vol1) : a.ticker = r.ticker /\ a.vol = r.v1
             /\ \E b \in Range(vol0) : b.ticker = r.ticker /\ b.vol = r.v0
             /\ r.v0 > 0
             /\ 200 * r.v1 - r.v0 <= 2 * r.v0 * r.ratio
             /\ 2 * r.v0 * r.ratio <= 200 * r.v1 + r.v0
             /\ (2 * r.v0 * r.ratio - 200 * r.v1) \in {r.v0, 0 - r.v0} => r.ratio % 2 = 0
        /\ \A m, n \in 1..Len(passed) : passed[m].ticker = passed[n].ticker => m = n
        /\ \A t \in DOMAIN src.vol1 :
             (src.vol0[t] \in {Num(0), Absent, NaN} \/ src.vol1[t] \in {Absent, NaN})
                => t \notin TickersOf(passed)

C1_Witness ==
    /\ Detected
    /\ \E r \in Range(passed) : r.v1 = 1999 /\ r.v0 = 400 /\ r.ratio = 500
    /\ \E t \in DOMAIN src.vol1 :
         src.vol1[t] = Num(2000) /\ src.vol0[t] = Num(0) /\ t \notin TickersOf(passed)

(***************************************************************************)
(* C2: pick_compare_days gives (Friday, Thursday) of the preceding week on *)
(* a Monday, (Monday, preceding Friday) on a Tuesday, the two weekdays     *)
(* just before the reference date on Wednesday to Friday, and (None, None) *)
(* without any error on Saturday and Sunday.                               *)
(***************************************************************************)
LastWeekdayBefore(d) ==
    CHOOSE x \in (d - 7)..(d - 1) :
        weekday(x) < 5 /\ \A y \in (x + 1)..(d - 1) : weekday(y) >= 5

C2_CompareDays ==
    pc # "start" =>
        LET now == src.now
            wd == weekday(now)
        IN /\ wd = 0 => days = <<now - 3, now - 4>>
                        /\ weekday(days[1]) = 4 /\ weekday(days[2]) = 3
           /\ wd = 1 => days = <<now - 1, now - 4>>
                        /\ weekday(days[1]) = 0 /\ weekday(days[2]) = 4
           /\ wd \in 2..4 => days = <<now - 1, now - 2>>
           /\ wd < 5 => /\ days[1] = LastWeekdayBefore(now)
                        /\ days[2] = LastWeekdayBefore(days[1])
           /\ wd >= 5 => /\ days = <<>>
                         /\ pc = "exit" /\ exitCode = 0
                         /\ raised = "none" /\ ~stderr /\ attempts = <<>>

C2_Witness ==
    /\ pc = "fetch"
    /\ weekday(src.now) = 0
    /\ weekday(days[1]) = 4
    /\ weekday(days[2]) = 3

C4_SafeChunks ==
    /\ \A a \in Range(attempts) :
         /\ a.hi - a.lo <= TG_MAX
         /\ a.what = "report" => a.lo = 0 \/ SafeBoundary(msg, a.lo)
    /\ \A w \in {"report", "error"} :
         (Returned(w) /\ TextLen(TextOf(w)) = 5000) => Len(DeliveredOf(w)) = 2

(***************************************************************************)
(* C5: delivery is atomic: if the delivery of the report by tg_send ended  *)
(* in failure, no chunk of the report has been delivered.                  *)
(***************************************************************************)
C5_AtomicDelivery ==
    raised = "delivery" => DeliveredOf("report") = <<>>

(***************************************************************************)
(* C6: every message or chunk is first posted with HTML parsing, and       *)
(* posted as plain text only right after its HTML post failed; a failed    *)
(* plain post of the report is surfaced to the main block, which then      *)
(* tries to deliver the error text through tg_send, writes the error to    *)
(* standard error and exits with code 1, also when the error text could    *)
(* not be delivered.  A run in which build_report or the delivery raised   *)
(* never exits with code 0.                                                *)
(***************************************************************************)
C6_ErrorPolicy ==
    /\ \A n \in 1..Len(attempts) :
         LET a == attempts[n]
         IN /\ ~a.html =>
                 /\ n > 1
                 /\ attempts[n - 1] = [a EXCEPT !.html = TRUE, !.ok = FALSE]
            /\ (a.html /\ ~a.ok) =>
                 IF n = Len(attempts) THEN pc = "post_plain"
                 ELSE attempts[n + 1] = [a EXCEPT !.html = FALSE, !.ok = attempts[n + 1].ok]
            /\ (a.what = "report" /\ ~a.html /\ ~a.ok) =>
                 /\ raised = "delivery"
                 /\ \A m \in (n + 1)..Len(attempts) : attempts[m].what = "error"
    /\ (raised # "none" /\ pc \in {"post_html", "post_plain", "exit"}) =>
         /\ sending = "error"
         /\ text = ErrorText
         /\ pc = "exit" => AttemptsOf("error") # <<>>
    /\ (raised # "none" /\ AttemptsOf("error") # <<>>) =>
         LET first == AttemptsOf("error")[1]
         IN first.html /\ first.lo = 0
    /\ (pc = "exit" /\ raised # "none") => stderr /\ exitCode = 1
    /\ (pc = "exit" /\ exitCode = 0) => raised = "none" /\ ~stderr

C6_Witness ==
    /\ pc = "exit"
    /\ raised = "delivery"
    /\ exitCode = 1
    /\ stderr
    /\ attempts[Len(attempts)] = [what |-> "error", lo |-> 0, hi |-> TextLen(ErrorText),
                                  html |-> FALSE, ok |-> FALSE]
    /\ DeliveredOf("error") = <<>>

(***************************************************************************)
(* C7: the rows that pass the ratio filter are ordered by market           *)
(* capitalization descending, then recent volume descending; a ticker      *)
(* without a cap entry is ranked with cap 0 and never dropped (the cap     *)
(* join keeps the set of tickers); the rendered rows are the first         *)
(* min(N, TOP_N) rows of that order, numbered 1..min(N, TOP_N).            *)
(***************************************************************************)
C7_Ranking ==
    Ranked =>
        /\ Len(ranked) = Len(passed)
        /\ TickersOf(ranked) = TickersOf(passed)
        /\ \A r \in Range(ranked) :
             /\ \E q \in Range(passed) : q.ticker = r.ticker /\ q.v1 = r.v1 /\ q.v0 = r.v0
             /\ IF \E c \in Range(mcap) : c.ticker = r.ticker
                THEN \E c \in Range(mcap) : c.ticker = r.ticker /\ c.cap = r.cap
                ELSE r.cap = 0
        /\ \A m, n \in 1..Len(ranked) :
             m < n => \/ ranked[m].cap > ranked[n].cap
                      \/ ranked[m].cap = ranked[n].cap /\ ranked[m].v1 >= ranked[n].v1
        /\ Len(result) = Min(Len(passed), TOP_N)
        /\ \A n \in 1..Len(result) : result[n] = ranked[n]
        /\ Rendered =>
             /\ Len(RowLines(msg)) = Min(Len(passed), TOP_N)
             /\ \A n \in 1..Len(RowLines(msg)) :
                  /\ RowLines(msg)[n].num = n
                  /\ RowLines(msg)[n].ticker = ranked[n].ticker

C7_Witness ==
    /\ Rendered
    /\ Len(ranked) = 3
    /\ src.cap[ranked[3].ticker] = Absent
    /\ ranked[3].cap = 0
    /\ ranked[1].cap = ranked[2].cap
    /\ ranked[1].v1 > ranked[2].v1
    /\ ranked[1].ticker > ranked[2].ticker
    /\ RowLines(msg)[1].ticker = ranked[1].ticker

(***************************************************************************)
(* C8: on a weekday, when no row passes the filter (the join is empty,     *)
(* every snapshot is empty, or every ratio is below the threshold),        *)
(* build_report does not raise and returns the header followed by exactly  *)
(* one "no matches" line, never an empty text, and tg_send posts that text *)
(* whole, as a single message.                                             *)
(***************************************************************************)
C8_EmptyReport ==
    /\ (Detected /\ (vol1 = <<>> \/ vol0 = <<>>
                     \/ TickersOf(vol1) \cap TickersOf(vol0) = {}
                     \/ \A a \in Range(vol1), b \in Range(vol0) :
                           (a.ticker = b.ticker /\ b.vol > 0) => 200 * a.vol < 999 * b.vol))
          => passed = <<>>
    /\ (Rendered /\ passed = <<>>) =>
        /\ Len(msg) = 5
        /\ \A n \in 1..3 : msg[n] = Header[n]
        /\ msg[5].kind = "nomatch" /\ msg[5].len > 0
        /\ Len(SelectSeq(msg, LAMBDA l : l.kind = "nomatch")) = 1
        /\ TextLen(msg) > 0
        /\ \A a \in Range(AttemptsOf("report")) : a.lo = 0 /\ a.hi = TextLen(msg)
        /\ Len(DeliveredOf("report")) <= 1
        /\ (pc = "exit" /\ raised = "none") =>
             /\ exitCode = 0
             /\ Len(delivered) = 1
             /\ delivered[1].what = "report"

C8_Witness ==
    /\ pc = "exit"
    /\ exitCode = 0
    /\ vol1 = <<>>
    /\ vol0 = <<>>
    /\ mcap # <<>>
    /\ msg[5].kind = "nomatch"
    /\ Len(delivered) = 1
    /\ delivered[1].hi = TextLen(msg)

(***************************************************************************)
(* C9: every instrument listed in the ">= 5x" report has a recent volume   *)
(* at least 5 times its prior volume.                                      *)
(***************************************************************************)
C9_AtLeastFiveTimes ==
    Rendered =>
        \A n \in 1..Len(RowLines(msg)) : result[n].v1 >= 5 * result[n].v0

(***************************************************************************)
(* C10: when every post succeeds, tg_send(text) delivers exactly           *)
(* ceil(len(text) / TG_MAX) messages, each non-empty, in increasing offset *)
(* order, whose concatenation is the text; the chunking loop makes at most *)
(* that many rounds and never stops inside the text.                       *)
(***************************************************************************)
C10_ChunksTileText ==
    \A w \in {"report", "error"} :
        (Entered(w) /\ \A a \in Range(AttemptsOf(w)) : a.ok) =>
            LET d == DeliveredOf(w)
                n == TextLen(TextOf(w))
            IN /\ n > 0
               /\ d = AttemptsOf(w)
               /\ \A k \in 1..Len(d) :
                    /\ d[k].html
                    /\ d[k].lo < d[k].hi
                    /\ d[k].hi - d[k].lo <= TG_MAX
                    /\ d[k].lo = (IF k = 1 THEN 0 ELSE d[k - 1].hi)
                    /\ d[k].hi <= n
               /\ Len(d) <= Ceil(n, TG_MAX)
               /\ (sending = w /\ pc = "post_html") => i < n /\ i = Len(d) * TG_MAX
               /\ (sending = w /\ pc = "exit") => Len(d) = Ceil(n, TG_MAX) /\ d[Len(d)].hi = n
               /\ (sending = w /\ pc # "exit") => ENABLED Next

C10_Witness ==
    /\ pc = "exit"
    /\ sending = "error"
    /\ \A a \in Range(attempts) : a.ok
    /\ TextLen(ErrorText) = 2 * TG_MAX + 1
    /\ Len(delivered) = 3
    /\ delivered[3].lo = 2 * TG_MAX
    /\ delivered[3].hi = 2 * TG_MAX + 1

====
